---- MODULE Spec2Model ----
(***************************************************************************)
(* Model of the conversion orchestration of Simple-Media-Converter:        *)
(* the UI thread of gui.py (file list, Start, Cancel, queue consumer) and  *)
(* the job thread of logic.py (process_files and its three strategies,     *)
(* run_ffmpeg_cancellable and its stderr drain thread), together with the  *)
(* external child processes they supervise, the encoder detection thread   *)
(* and the audio option widgets kept consistent by on_format_change.       *)
(***************************************************************************)
EXTENDS Integers, Sequences, FiniteSets, TLC

\* ---------------------------------------------------------------- bounds
\* The optional events of one behaviour: a file added to a non-empty list, a
\* removal, clear or reorder, a changed option, a rejected Start, a job after
\* the first, a confirmed cancel, a
\* cancelled prompt, a failure of the environment (a child that cannot be
\* spawned or exits with a non-zero code, a failing probe, a failing mkdtemp,
\* a child that fills a pipe nobody reads), a diagnostic line that puts
\* events, and a handler of the consumer that raises.
MaxEvents == 2

\* The file paths the user can queue.
Files == 1..(MaxEvents + 1)

VARIABLES
    \* --- UI thread (gui.py)
    file_paths,       \* FileManager.file_paths
    process_button,   \* state of the Start button: "normal" | "disabled"
    cancel_window,    \* TRUE while the cancel popup exists
    askyesno_open,    \* TRUE while the "Are you sure" dialog of cancel_processing is open
    cancel_event,     \* threading.Event shared with the job thread
    gui_queue,        \* queue.Queue shared with the job thread
    messagebox,       \* title of the messagebox a handler has open, "none" when none
    progressbar,      \* the progress bar: its value and whether it is animating
    ui_options,       \* the option widgets read by get_current_settings
    consumer,         \* process_gui_queue: "scheduled" (its timer is pending) |
                      \*   "showerror" (inside its handler, in the error dialog) | "stopped"
    vbr_check,        \* state of the VBR checkbox: "normal" | "disabled"
    last_process_time, \* AudioConverterApp.last_process_time: None or the job it is of
    hw_encoders,      \* HardwareManager.hw_encoders
    \* --- encoder detection thread (logic.py) and the engine it queries
    encoders_info,    \* what `ffmpeg -encoders` prints: the lines of the encoder table
    detection,        \* the detection thread: "none" | "auto" | "manual" | "done"
    \* --- job thread (logic.py)
    pc,               \* position of the job thread
    settings,         \* snapshot passed to process_files
    ffmpeg_args,      \* the argument set built for the engine run of this file or stage
    i,                \* position of the list iterator of the running loop
    total_files,      \* process_individual: len(files) taken before the loop
    failed_files,     \* process_individual: names of the failed files
    file_path,        \* loop variable
    duration,         \* process_individual: None or the probed duration, in 1/100 s
    intermediate_files, \* joined strategies: names appended so far
    temp_dir,         \* "none" | "exists" | "removed"
    temp_files,       \* files present in the staging directory
    child,            \* the child process of the job thread
    drain,            \* stderr drain thread: "none" | "running" | "done" (it has read
                      \*   the stream to its end) | "died" (an exception has ended it)
    strategy,         \* the strategy function process_files has called, "none" before
    output_path,      \* what get_output_path returned: "none" before, "" when declined
    probe,            \* process_individual: ffmpeg.probe of this file: "none" | "ok" | "failed"
    \* --- history (not program state)
    counts,           \* events of each decisive kind put since the job was started
    requested,        \* the token has been set while the job thread was running
    attempted,        \* the files the job has taken from the list for the engine, in order
    batch,            \* the file list when Start was pressed
    jobs,             \* jobs started so far
    used,             \* optional events so far
    clicks            \* confirmed Cancel presses so far

vars == <<file_paths, process_button, cancel_window, askyesno_open, cancel_event,
          gui_queue, messagebox, progressbar, ui_options, consumer, vbr_check,
          last_process_time, hw_encoders, encoders_info, detection, pc, settings, ffmpeg_args, i, total_files, failed_files, file_path,
          duration, intermediate_files, temp_dir, temp_files, child, drain,
          strategy, output_path, probe, counts, requested, attempted, batch, jobs, used, clicks>>

loopVars == <<i, total_files, failed_files, file_path, duration, intermediate_files>>
tempVars == <<temp_dir, temp_files>>
runVars == <<child, drain>>
ctlVars == <<strategy, output_path, probe>>
hwVars == <<hw_encoders, encoders_info, detection>>

\* ---------------------------------------------------------------- helpers
\* cancelled notes that the token was set while the child was alive; blocked
\* that the child is waiting in a write to a full pipe.
NoChild == [state |-> "none", kind |-> "none", rc |-> 0, terminated |-> FALSE, err |-> "",
            cancelled |-> FALSE, blocked |-> FALSE]

\* Python's None and a value that is not None, for an optional number.
None == <<>>
Some(x) == <<x>>

\* A number n/d in lowest terms; the progress bar starts at 0.
RECURSIVE GCD(_, _)
GCD(a, b) == IF b = 0 THEN a ELSE GCD(b, a % b)
Ratio(n, d) == <<n \div GCD(n, d), d \div GCD(n, d)>>
Zero == <<0, 1>>

RECURSIVE SeqToSet(_)
SeqToSet(s) == IF s = <<>> THEN {} ELSE {Head(s)} \cup SeqToSet(Tail(s))

\* Python: del lst[k] (k is 1-based here)
DelAt(s, k) == SubSeq(s, 1, k - 1) \o SubSeq(s, k + 1, Len(s))

\* Python: lst.insert(k0, x) with 0-based k0 in 0..len(lst)
InsertAt(s, k0, x) == SubSeq(s, 1, k0) \o <<x>> \o SubSeq(s, k0 + 1, Len(s))

\* An event is a tuple <<type, payload>>; the payload is a tuple whose first
\* element is a string tag.
Ev(type, payload) == <<type, payload>>
Status(tag) == Ev("status", <<tag>>)

\* The kinds of event counted per job.
IsJoinCancelled(e) == e[1] = "status" /\ e[2][1] = "Join process cancelled."
IsSuccess(e) == e[1] = "showinfo" /\ e[2][1] = "Processing Complete"
IsShowError(e) == e[1] = "showerror"
IsDone(e) == e[1] = "processing_done"

RECURSIVE Count(_, _)
Count(evs, kind) ==
    IF evs = <<>> THEN 0
    ELSE (IF (kind = "cancelled" /\ IsJoinCancelled(Head(evs)))
             \/ (kind = "success" /\ IsSuccess(Head(evs)))
             \/ (kind = "showerror" /\ IsShowError(Head(evs)))
             \/ (kind = "done" /\ IsDone(Head(evs)))
          THEN 1 ELSE 0) + Count(Tail(evs), kind)

\* The mode of the last progress_mode event of evs, `mode` when it has none.
RECURSIVE LastMode(_, _)
LastMode(mode, evs) ==
    IF evs = <<>> THEN mode
    ELSE LastMode(IF Head(evs)[1] = "progress_mode" THEN Head(evs)[2][1] ELSE mode,
                  Tail(evs))

\* The payloads of the status events of evs, in order.
RECURSIVE Statuses(_)
Statuses(evs) ==
    IF evs = <<>> THEN <<>>
    ELSE (IF Head(evs)[1] = "status" THEN <<Head(evs)[2]>> ELSE <<>>)
            \o Statuses(Tail(evs))

NoCounts == [cancelled |-> 0, success |-> 0, showerror |-> 0, done |-> 0, late |-> 0,
             failures |-> 0, mode |-> "none", statuses |-> <<>>]

\* late counts the events put after processing_done; failures counts the engine
\* and spawn failures the pipeline has caught; mode is the progress mode the
\* job has asked for last; statuses are the status texts put so far.
Tally(c, evs) ==
    [cancelled |-> c.cancelled + Count(evs, "cancelled"),
     success |-> c.success + Count(evs, "success"),
     showerror |-> c.showerror + Count(evs, "showerror"),
     done |-> c.done + Count(evs, "done"),
     late |-> IF c.done > 0 THEN c.late + Len(evs) ELSE c.late,
     failures |-> c.failures,
     mode |-> LastMode(c.mode, evs),
     statuses |-> c.statuses \o Statuses(evs)]

\* ---------------------------------------------------------------- Init
\* The values of the option widgets that get_ffmpeg_args reads, when the
\* configuration file sets none of them.
WidgetDefaults ==
    [metadata |-> TRUE, audio_normalize |-> FALSE, output_format_audio |-> "mp3",
     vbr_mode |-> FALSE, vbr_quality |-> 4, bitrate |-> "192k",
     output_format_video |-> "mp4", video_codec |-> "libx265",
     video_resolution |-> "Keep Original", video_fps |-> "Keep Original"]

\* Values the user can give these widgets.
WidgetValues ==
    [metadata : BOOLEAN, audio_normalize : BOOLEAN, output_format_audio : {"mp3", "flac"},
     vbr_mode : BOOLEAN, vbr_quality : {0, 4}, bitrate : {"320k", "192k"},
     output_format_video : {"mp4", "mkv"}, video_codec : {"libx265", "libx264"},
     video_resolution : {"Keep Original", "4320p (8K)", "720p (HD)"},
     video_fps : {"Keep Original", "30"}]

NoSettings == [mode |-> "Audio", join_files_audio |-> FALSE, join_files_video |-> FALSE,
               ffmpeg_path |-> ""] @@ WidgetDefaults

\* The engine paths that name an existing file.
ExistingPaths == {"ffmpeg"}

\* The values get_current_settings can return for the options the pipeline
\* reads when it chooses its strategy, the other widgets at their defaults.
SettingsSpace ==
    {s @@ WidgetDefaults :
        s \in [mode : {"Audio", "Video"}, join_files_audio : BOOLEAN,
               join_files_video : BOOLEAN, ffmpeg_path : {"", "missing", "ffmpeg"}]}

\* The snapshots taken in the model: each joined strategy, and the individual
\* strategy in each mode with the join flag of the other mode set.
StartSettings ==
    {s @@ WidgetDefaults : s \in
        {[mode |-> "Audio", join_files_audio |-> TRUE, join_files_video |-> FALSE,
          ffmpeg_path |-> "ffmpeg"],
         [mode |-> "Video", join_files_audio |-> TRUE, join_files_video |-> TRUE,
          ffmpeg_path |-> "ffmpeg"],
         [mode |-> "Audio", join_files_audio |-> FALSE, join_files_video |-> TRUE,
          ffmpeg_path |-> "ffmpeg"],
         [mode |-> "Video", join_files_audio |-> TRUE, join_files_video |-> FALSE,
          ffmpeg_path |-> "ffmpeg"]}}

\* An argument set: a dict of keyword arguments for the engine.
NoArgs == [k \in {} |-> "None"]

\* The audio formats that have no variable-bitrate mode (line 1282).
FixedRateFormats == {"aac", "alac", "wav", "aiff", "flac"}

\* An on_format_change that leaves the checkbox variable as it is.
VbrAfterFormatChange_Kept(format, vbr_mode) == vbr_mode

\* on_format_change, lines 1281-1286: the value it leaves in vbr_mode_var and
\* the state it gives the VBR checkbox.
VbrAfterFormatChange(format, vbr_mode) ==
    IF format \in FixedRateFormats THEN FALSE ELSE vbr_mode

VbrCheckAfterFormatChange(format) ==
    IF format \in FixedRateFormats THEN "disabled" ELSE "normal"

\* The option widgets after on_format_change.
on_format_change(options) ==
    [options EXCEPT !.vbr_mode = VbrAfterFormatChange(options.output_format_audio, @)]

\* The state after construction: the widgets are created with the values
\* `options` of the configuration file and __init__ calls on_format_change
\* (line 658); the detection thread is `thread` and the engine's encoder
\* table is `table`.
InitOf(options, table, thread) ==
    /\ file_paths = <<>>
    /\ process_button = "normal"
    /\ cancel_window = FALSE
    /\ askyesno_open = FALSE
    /\ cancel_event = FALSE
    /\ gui_queue = <<>>
    /\ messagebox = "none"
    /\ progressbar = [value |-> Zero, running |-> FALSE]
    /\ ui_options = on_format_change(options)
    /\ vbr_check = VbrCheckAfterFormatChange(options.output_format_audio)
    /\ consumer = "scheduled"
    /\ last_process_time = None
    /\ hw_encoders = <<>>
    /\ encoders_info = table
    /\ detection = thread
    /\ pc = "idle"
    /\ settings = NoSettings
    /\ ffmpeg_args = NoArgs
    /\ i = 0
    /\ total_files = 0
    /\ failed_files = <<>>
    /\ file_path = 0
    /\ duration = None
    /\ intermediate_files = <<>>
    /\ temp_dir = "none"
    /\ temp_files = {}
    /\ child = NoChild
    /\ drain = "none"
    /\ strategy = "none"
    /\ output_path = "none"
    /\ probe = "none"
    /\ counts = NoCounts
    /\ requested = FALSE
    /\ attempted = <<>>
    /\ batch = <<>>
    /\ jobs = 0
    /\ used = 0
    /\ clicks = 0

\* The state after construction in the specifications of the conversion,
\* which leave the encoder detection out.
InitWith(options) == InitOf(options, <<>>, "none")

Init == \E options \in StartSettings : InitWith(options)

\* gui_queue.put of the events evs, in order.
Emit(evs) ==
    /\ gui_queue' = gui_queue \o evs
    /\ counts' = Tally(counts, evs)

\* The puts of an except clause that has caught a failure.
EmitFailure(evs) ==
    /\ gui_queue' = gui_queue \o evs
    /\ counts' = [Tally(counts, evs) EXCEPT !.failures = @ + 1]

\* ---------------------------------------------------------------- UI thread
jobVars == <<pc, settings, ffmpeg_args, i, total_files, failed_files, file_path, duration,
             intermediate_files, temp_dir, temp_files, child, drain, strategy,
             output_path, probe>>

\* The program constant of add_files_to_list.
FileLimit == 20

\* An optional event can still happen; Spend(cond) counts one when cond holds.
CanSpend == used < MaxEvents
Spend(cond) == (cond => CanSpend) /\ used' = IF cond THEN used + 1 ELSE used

\* A modal dialog of the UI thread is open: no widget handler runs until it is
\* closed (timers still run).
Modal == askyesno_open \/ messagebox # "none" \/ consumer = "showerror"

\* File paths are interchangeable: the next file the user adds is the first of
\* Files that is not in the list.
NextFile(s) == CHOOSE f \in Files \ SeqToSet(s) : \A g \in Files \ SeqToSet(s) : f <= g

\* A limit test that lets one file too many in.
BelowLimit_OffByOne(n) == n <= FileLimit

\* `len(self.file_paths) < 20` and `len(self.file_paths) >= 20` (lines 80, 82).
BelowLimit(n) == n < FileLimit
AtLimit(n) == n >= FileLimit

\* The loop of add_files_to_list over the supported files fs: a new file is
\* appended while the list is below the limit; at the limit the warning is
\* shown and the loop ends; a file already in the list is skipped.
RECURSIVE AddLoop(_, _)
AddLoop(paths, fs) ==
    IF fs = <<>> THEN [paths |-> paths, warned |-> FALSE]
    ELSE IF BelowLimit(Len(paths)) /\ Head(fs) \notin SeqToSet(paths)
    THEN AddLoop(Append(paths, Head(fs)), Tail(fs))
    ELSE IF AtLimit(Len(paths)) THEN [paths |-> paths, warned |-> TRUE]
    ELSE AddLoop(paths, Tail(fs))

\* FileManager.add_files_to_list (Add and Drop), called with the supported
\* files fs.
add_files_to_list(fs) ==
    /\ ~Modal
    /\ fs # <<>>
    /\ file_paths' = AddLoop(file_paths, fs).paths
    /\ messagebox' = IF AddLoop(file_paths, fs).warned THEN "Limit Reached" ELSE "none"
    /\ Spend(file_paths # <<>>)
    /\ UNCHANGED <<process_button, cancel_window, askyesno_open, clicks, cancel_event,
                   gui_queue, counts, requested, attempted, batch, jobs, progressbar,
                   ui_options, vbr_check, last_process_time, hwVars, consumer>>
    /\ UNCHANGED jobVars

\* FileManager.remove_selected with the single selection k (SINGLE select mode).
remove_selected(k) ==
    /\ ~Modal
    /\ Spend(TRUE)
    /\ k \in 1..Len(file_paths)
    /\ file_paths' = DelAt(file_paths, k)
    /\ UNCHANGED <<process_button, cancel_window, askyesno_open, clicks, cancel_event,
                   gui_queue, counts, requested, attempted, batch, jobs, messagebox,
                   progressbar, ui_options, vbr_check, last_process_time, hwVars, consumer>>
    /\ UNCHANGED jobVars

\* FileManager.clear_all
clear_all ==
    /\ ~Modal
    /\ Spend(TRUE)
    /\ file_paths # <<>>
    /\ file_paths' = <<>>
    /\ UNCHANGED <<process_button, cancel_window, askyesno_open, clicks, cancel_event,
                   gui_queue, counts, requested, attempted, batch, jobs, messagebox,
                   progressbar, ui_options, vbr_check, last_process_time, hwVars, consumer>>
    /\ UNCHANGED jobVars

\* FileManager.on_drag_release: the item at drag_start_index moves to end_index.
on_drag_release(from, to) ==
    /\ ~Modal
    /\ Spend(TRUE)
    /\ from \in 1..Len(file_paths) /\ to \in 1..Len(file_paths) /\ from # to
    /\ file_paths' = InsertAt(DelAt(file_paths, from), to - 1, file_paths[from])
    /\ UNCHANGED <<process_button, cancel_window, askyesno_open, clicks, cancel_event,
                   gui_queue, counts, requested, attempted, batch, jobs, messagebox,
                   progressbar, ui_options, vbr_check, last_process_time, hwVars, consumer>>
    /\ UNCHANGED jobVars

\* A snapshot that is the widgets' own storage.
SnapshotAfterSetOption_Shared(snapshot, options) ==
    IF snapshot = NoSettings THEN snapshot ELSE options

\* The snapshot built by get_current_settings holds copies of the values: a
\* later change of a widget does not reach it.
SnapshotAfterSetOption(snapshot, options) == snapshot

\* The user closes the messagebox of a handler.
messagebox_ok ==
    /\ messagebox # "none"
    /\ messagebox' = "none"
    /\ UNCHANGED <<file_paths, process_button, cancel_window, askyesno_open, clicks,
                   cancel_event, gui_queue, counts, requested, attempted, batch, jobs,
                   used, progressbar, ui_options, vbr_check, last_process_time, hwVars, consumer>>
    /\ UNCHANGED jobVars

\* The user changes one of the option widgets read by get_current_settings
\* (the mode, a join checkbox, the engine path): options is the new value of
\* the widgets.
set_option(options) ==
    /\ ~Modal
    /\ Spend(TRUE)
    /\ Cardinality({k \in DOMAIN options : options[k] # ui_options[k]}) = 1
    /\ ui_options' = options
    /\ settings' = SnapshotAfterSetOption(settings, options)
    /\ UNCHANGED <<file_paths, process_button, cancel_window, askyesno_open, clicks,
                   cancel_event, gui_queue, counts, requested, attempted, batch, jobs,
                   messagebox, progressbar, consumer, vbr_check, last_process_time,
                   hwVars>>
    /\ UNCHANGED <<pc, ffmpeg_args, loopVars, tempVars, runVars, ctlVars>>

\* The user selects `format` in the audio format box: the box sets
\* output_format_audio and its <<ComboboxSelected>> binding (line 798) calls
\* on_format_change.
select_format(format) ==
    /\ ~Modal
    /\ ui_options' = on_format_change([ui_options EXCEPT !.output_format_audio = format])
    /\ vbr_check' = VbrCheckAfterFormatChange(format)
    /\ UNCHANGED <<file_paths, process_button, cancel_window, askyesno_open, clicks,
                   cancel_event, gui_queue, counts, requested, attempted, batch, jobs,
                   used, messagebox, progressbar, consumer, last_process_time, hwVars>>
    /\ UNCHANGED jobVars

\* The user clicks the VBR checkbox (lines 806-809): a disabled checkbox
\* ignores the click, an enabled one inverts vbr_mode_var.
vbr_check_click ==
    /\ ~Modal
    /\ vbr_check = "normal"
    /\ ui_options' = [ui_options EXCEPT !.vbr_mode = ~@]
    /\ UNCHANGED <<file_paths, process_button, cancel_window, askyesno_open, clicks,
                   cancel_event, gui_queue, counts, requested, attempted, batch, jobs,
                   used, messagebox, progressbar, consumer, vbr_check, last_process_time,
                   hwVars>>
    /\ UNCHANGED jobVars

\* AudioConverterApp.restore_defaults, confirmed by the user: the widgets get
\* their default values (the engine path is not one of them), on_format_change
\* runs, and the "Success" messagebox is shown.
restore_defaults ==
    /\ ~Modal
    /\ ui_options' = on_format_change([NoSettings EXCEPT !.ffmpeg_path = ui_options.ffmpeg_path])
    /\ vbr_check' = VbrCheckAfterFormatChange(NoSettings.output_format_audio)
    /\ messagebox' = "Success"
    /\ UNCHANGED <<file_paths, process_button, cancel_window, askyesno_open, clicks,
                   cancel_event, gui_queue, counts, requested, attempted, batch, jobs,
                   used, progressbar, consumer, last_process_time, hwVars>>
    /\ UNCHANGED jobVars

\* FileManager.get_all_file_paths returns the list object itself, so the
\* `files` argument of the job thread is the UI's list.
files == file_paths

\* A Start handler that leaves the button enabled.
ButtonAfterStart_StillNormal == "normal"

\* What start_processing_thread leaves the Start button in.
ButtonAfterStart == "disabled"

\* A Start handler without its two tests.
StartRejection_NoChecks(options, paths) == "none"

\* The tests of start_processing_thread (lines 1305-1314): the title of the
\* error messagebox it shows before returning, "none" when it goes on.
StartRejection(options, paths) ==
    IF options.ffmpeg_path = "" \/ options.ffmpeg_path \notin ExistingPaths
    THEN "FFmpeg Not Found"
    ELSE IF paths = <<>> THEN "Error"
    ELSE "none"

\* get_current_settings: a new dict holding the current values of the widgets.
get_current_settings(options) ==
    [k \in {"mode", "join_files_audio", "join_files_video", "ffmpeg_path", "metadata",
            "audio_normalize", "output_format_audio", "vbr_mode", "vbr_quality",
            "bitrate", "output_format_video", "video_codec", "video_resolution",
            "video_fps"} |-> options[k]]

\* AudioConverterApp.start_processing_thread
start_processing_thread ==
    /\ ~Modal
    /\ process_button = "normal"
    /\ IF StartRejection(ui_options, file_paths) # "none"
       THEN /\ messagebox' = StartRejection(ui_options, file_paths)
            /\ Spend(TRUE)
            /\ UNCHANGED <<cancel_event, cancel_window, process_button, progressbar,
                           counts, requested, attempted, batch, jobs>>
            /\ UNCHANGED <<pc, settings, ffmpeg_args, tempVars, ctlVars>>
       ELSE /\ Spend(jobs > 0)
            /\ cancel_event' = FALSE
            /\ cancel_window' = TRUE
            /\ process_button' = ButtonAfterStart
            /\ progressbar' = [progressbar EXCEPT !.value = Zero]
            /\ settings' = get_current_settings(ui_options)
            /\ pc' = "process_files"
            /\ counts' = NoCounts
            /\ requested' = FALSE
            /\ attempted' = <<>>
            /\ batch' = file_paths
            /\ jobs' = jobs + 1
            /\ temp_dir' = "none" /\ temp_files' = {}
            /\ strategy' = "none" /\ output_path' = "none" /\ probe' = "none"
            /\ UNCHANGED messagebox
    /\ UNCHANGED <<file_paths, askyesno_open, clicks, gui_queue, ui_options, vbr_check, last_process_time, hwVars, consumer>>
    /\ UNCHANGED <<ffmpeg_args, loopVars, runVars>>

\* The Cancel button of the popup: cancel_processing opens its askyesno dialog.
cancel_button ==
    /\ cancel_window /\ ~Modal
    /\ CanSpend
    /\ askyesno_open' = TRUE
    /\ UNCHANGED <<file_paths, process_button, cancel_window, used, clicks, cancel_event,
                   gui_queue, counts, requested, attempted, batch, jobs, messagebox,
                   progressbar, ui_options, vbr_check, last_process_time, hwVars, consumer>>
    /\ UNCHANGED jobVars

\* cancel_processing after the user has answered the dialog.
cancel_processing(yes) ==
    /\ askyesno_open
    /\ askyesno_open' = FALSE
    /\ IF yes
       THEN /\ cancel_event' = TRUE
            /\ Emit(<<Status("Cancelling...")>>)
            /\ requested' = (requested \/ pc # "idle")
            /\ clicks' = clicks + 1
            /\ child' = IF child.state = "alive" THEN [child EXCEPT !.cancelled = TRUE] ELSE child
       ELSE UNCHANGED <<cancel_event, gui_queue, counts, requested, clicks, child>>
    /\ Spend(yes)
    /\ UNCHANGED <<file_paths, process_button, cancel_window, batch, jobs, attempted,
                   messagebox, progressbar, ui_options, vbr_check, last_process_time, hwVars, consumer>>
    /\ UNCHANGED <<pc, settings, ffmpeg_args, loopVars, tempVars, drain, ctlVars>>

\* What process_gui_queue does to the progress bar for one message.
ApplyToProgressbar(bar, message) ==
    IF message[1] = "progress" THEN [bar EXCEPT !.value = message[2][1]]
    ELSE IF message[1] = "progress_mode"
    THEN (IF message[2][1] = "indeterminate"
          THEN [bar EXCEPT !.running = TRUE]
          ELSE [value |-> Zero, running |-> FALSE])
    ELSE IF message[1] = "processing_done" THEN [bar EXCEPT !.value = Zero]
    ELSE bar

\* Lines 1238-1245: what process_gui_queue leaves in last_process_time. A
\* total_time event stores the time (kept here as the number of the job it is
\* of); the completion dialog shows the stored time, if any, and clears it.
AfterMessage(stored, message) ==
    IF message[1] = "total_time" THEN Some(message[2][2])
    ELSE IF IsSuccess(message) THEN None
    ELSE stored

\* A consumer whose timer is set again at the end of the try block only.
AfterCallback_NoFinally(raised) == IF raised THEN "stopped" ELSE "scheduled"

\* The finally clause (lines 1275-1276): the timer is set again however the
\* callback ends.
AfterCallback(raised) == "scheduled"

\* A consumer that enables Start as soon as the job's total time arrives.
EnablesStart_OnTotalTime(message) == message[1] \in {"total_time", "processing_done"}

\* Lines 1251-1252: the message whose handler enables the Start button.
EnablesStart(message) == message[1] = "processing_done"

\* AudioConverterApp.process_gui_queue: one timer tick with a message waiting
\* (a tick that finds the queue empty only sets the timer again). The handler
\* of the message takes effect, or raises and leaves the widgets as they are;
\* the handler of showerror stays in messagebox.showerror until the dialog is
\* closed.
process_gui_queue(raised) ==
    /\ consumer = "scheduled"
    /\ gui_queue # <<>>
    /\ gui_queue' = Tail(gui_queue)
    /\ Spend(raised)
    /\ IF raised
       THEN /\ consumer' = AfterCallback(TRUE)
            /\ UNCHANGED <<process_button, cancel_window, progressbar, last_process_time,
                           hw_encoders>>
       ELSE /\ consumer' = IF Head(gui_queue)[1] = "showerror" THEN "showerror"
                           ELSE AfterCallback(FALSE)
            /\ process_button' = IF EnablesStart(Head(gui_queue)) THEN "normal"
                                 ELSE process_button
            /\ cancel_window' = IF Head(gui_queue)[1] = "processing_done" THEN FALSE
                                ELSE cancel_window
            /\ progressbar' = ApplyToProgressbar(progressbar, Head(gui_queue))
            /\ last_process_time' = AfterMessage(last_process_time, Head(gui_queue))
            /\ hw_encoders' = IF Head(gui_queue)[1] \in {"update_codecs", "codec_test_finished"}
                              THEN Head(gui_queue)[2][2] ELSE hw_encoders
    /\ UNCHANGED <<file_paths, askyesno_open, clicks, cancel_event, counts, requested,
                   attempted, batch, jobs, messagebox, ui_options, vbr_check, encoders_info, detection>>
    /\ UNCHANGED jobVars

\* The user closes the error dialog of the consumer: messagebox.showerror
\* returns and the callback ends.
showerror_ok ==
    /\ consumer = "showerror"
    /\ consumer' = AfterCallback(FALSE)
    /\ UNCHANGED <<file_paths, process_button, cancel_window, askyesno_open, clicks,
                   cancel_event, gui_queue, counts, requested, attempted, batch, jobs,
                   used, messagebox, progressbar, ui_options, vbr_check, last_process_time, hwVars>>
    /\ UNCHANGED jobVars

\* ---------------------------------------------------------------- job thread
uiState == <<file_paths, process_button, cancel_window, askyesno_open, clicks,
             cancel_event, requested, attempted, batch, jobs, messagebox, progressbar,
             ui_options, vbr_check, last_process_time, hwVars, consumer>>

\* A choice that looks at the join flags without the mode.
Strategy_IgnoresMode(s) ==
    IF s.join_files_audio THEN "joined_audio"
    ELSE IF s.join_files_video THEN "joined_video"
    ELSE "individual"

\* process_files, lines 23-32: the strategy of a settings snapshot.
Strategy(s) ==
    IF s.mode = "Audio" /\ s.join_files_audio THEN "joined_audio"
    ELSE IF s.mode = "Video" /\ s.join_files_video THEN "joined_video"
    ELSE "individual"

Joined == Strategy(settings) \in {"joined_audio", "joined_video"}

\* An argument set that has both metadata markers.
MetadataArgs_Both(s) ==
    IF ~s.metadata THEN ("map_metadata" :> -1) @@ ("map" :> "0") ELSE ("map" :> "0")

\* get_ffmpeg_args, lines 118-124: strip the metadata or map all streams.
MetadataArgs(s) ==
    IF ~s.metadata THEN ("map_metadata" :> -1) ELSE ("map" :> "0")

\* An argument set that gives the fixed bitrate in both rate modes.
AudioRateArgs_AlwaysBitrate(s) ==
    IF s.vbr_mode THEN ("q:a" :> s.vbr_quality) @@ ("audio_bitrate" :> s.bitrate)
    ELSE ("audio_bitrate" :> s.bitrate)

\* get_ffmpeg_args, lines 146-149: the quality level or the fixed bitrate.
AudioRateArgs(s) ==
    IF s.vbr_mode THEN ("q:a" :> s.vbr_quality) ELSE ("audio_bitrate" :> s.bitrate)

\* re.search(r'(\d+)', resolution).group(1): the first run of digits of the
\* values of the resolution widget.
Height(resolution) ==
    CASE resolution = "4320p (8K)" -> "4320"
      [] resolution = "2160p (4K)" -> "2160"
      [] resolution = "1440p (2K)" -> "1440"
      [] resolution = "1080p (Full HD)" -> "1080"
      [] resolution = "720p (HD)" -> "720"
      [] resolution = "480p" -> "480"
      [] resolution = "360p" -> "360"
      [] resolution = "240p" -> "240"

\* get_ffmpeg_args: the dict of keyword arguments of the final encode. A later
\* assignment to a key replaces an earlier one (the left operand of @@ wins).
get_ffmpeg_args(s) ==
    LET af == IF s.audio_normalize THEN ("af" :> "loudnorm=I=-16:TP=-1.5:LRA=11")
              ELSE NoArgs
        vf == IF s.video_resolution # "Keep Original"
              THEN ("vf" :> <<"scale=-2:", Height(s.video_resolution)>>) ELSE NoArgs
        r == IF s.video_fps # "Keep Original" THEN ("r" :> s.video_fps) ELSE NoArgs
        byMode == IF s.mode = "Video"
                  THEN r @@ vf @@ ("format" :> s.output_format_video)
                         @@ ("vcodec" :> s.video_codec)
                  ELSE ("vn" :> "None") @@ AudioRateArgs(s)
                         @@ ("format" :> s.output_format_audio)
    IN byMode @@ af @@ MetadataArgs(s)

\* handle_ffmpeg_error(e): the two events it puts. e.stderr is "" when the
\* exception has no stderr attribute or an empty one.
handle_ffmpeg_error(e) ==
    LET codec == e.stderr \in {"Unknown encoder", "Unknown decoder"}
        title == IF codec THEN "Unsupported Codec" ELSE "FFmpeg Error"
        text == IF e.stderr = "" THEN "unexpected"
                ELSE IF codec THEN "remediation" ELSE e.stderr
    IN <<Ev("showerror", <<title, text>>), Status("Error during processing.")>>

\* What a failing child can have written to its diagnostic stream.
DiagTexts == {"Unknown encoder", "Unknown decoder", "other"}

\* process_files: entry, choice of the strategy and the first puts of it.
process_files ==
    /\ pc = "process_files"
    /\ IF Strategy(settings) = "joined_audio"
       THEN /\ Emit(<<Status("Joining audio files..."),
                             Ev("progress_mode", <<"indeterminate">>)>>)
            /\ pc' = "j_prompt"
       ELSE IF Strategy(settings) = "joined_video"
       THEN /\ Emit(<<Status("Joining video files..."),
                             Ev("progress_mode", <<"indeterminate">>)>>)
            /\ pc' = "j_prompt"
       ELSE /\ UNCHANGED <<gui_queue, counts>>
            /\ pc' = "ind_prompt"
    /\ strategy' = Strategy(settings)
    /\ UNCHANGED <<settings, ffmpeg_args, loopVars, tempVars, runVars, output_path, probe>>
    /\ UNCHANGED uiState
    /\ UNCHANGED used

\* process_files, the finally block: total_time and processing_done; the
\* thread ends.
process_files_finally ==
    /\ pc = "pf_finally"
    /\ Emit(<<Ev("total_time", <<"duration", jobs>>), Ev("processing_done", <<"done">>)>>)
    /\ pc' = "idle"
    /\ i' = 0 /\ total_files' = 0 /\ failed_files' = <<>> /\ file_path' = 0
    /\ duration' = None /\ intermediate_files' = <<>>
    /\ child' = NoChild /\ drain' = "none"
    /\ UNCHANGED <<settings, ffmpeg_args, tempVars>>
    /\ UNCHANGED uiState
    /\ UNCHANGED ctlVars
    /\ UNCHANGED used

\* ---- joined strategies (process_joined_audio, process_joined_video)

\* A finally block that leaves the staging directory in place.
rmtree_Skipped(dir) == dir

\* shutil.rmtree(temp_dir) in the finally block of a joined strategy.
rmtree(dir) == "removed"

\* A strategy that goes on without a destination.
Declined_Ignored(path) == FALSE

\* `if not output_file` (lines 190, 243) and `if not output_dir` (line 289).
Declined(path) == path = ""

\* A process_files without its finally clause: an exception that leaves the
\* strategy ends the thread.
AfterEscape_ThreadEnds == "idle"

\* process_files, lines 22-36: an exception that leaves the strategy function
\* passes through the finally clause.
AfterEscape == "pf_finally"

\* get_output_path(for_join=True) returns; then tempfile.mkdtemp().
process_joined_prompt(output_file, mkdtemp_ok) ==
    /\ pc = "j_prompt"
    /\ (output_file = "" => mkdtemp_ok)
    /\ output_path' = output_file
    /\ IF Declined(output_file)
       THEN /\ Emit(<<Status("Save cancelled."), Ev("progress_mode", <<"determinate">>)>>)
            /\ pc' = "pf_finally"
            /\ UNCHANGED tempVars
       ELSE IF ~mkdtemp_ok
       THEN \* mkdtemp raises outside the try block: the exception leaves the strategy
            /\ pc' = AfterEscape
            /\ UNCHANGED <<gui_queue, counts, tempVars>>
       ELSE /\ temp_dir' = "exists"
            /\ temp_files' = {}
            /\ pc' = "j_loop"
            /\ UNCHANGED <<gui_queue, counts>>
    /\ i' = 0 /\ intermediate_files' = <<>>
    /\ UNCHANGED <<settings, ffmpeg_args, total_files, failed_files, file_path, duration, runVars>>
    /\ UNCHANGED uiState
    /\ UNCHANGED <<strategy, probe>>
    /\ Spend(output_file = "" \/ ~mkdtemp_ok)

\* except InterruptedError of a joined strategy
JoinedInterrupted == <<Status("Join process cancelled.")>>

\* An except clause that goes on with the next file, as the individual loop does.
JoinedAfterError_Continue == "j_loop"

\* Where except Exception of a joined strategy leads: the finally block.
JoinedAfterError == "j_finally"

\* process.communicate() returns what is left unread in the stderr pipe: the
\* whole text when nothing else reads the pipe, nothing once the drain thread
\* has read it to the end.
communicate(c, drained) == IF drained THEN "" ELSE c.err

\* A loop that never looks at the token.
LoopCheck_Missing(token) == FALSE

\* `if cancel_event.is_set()` at the top of a loop body and after the stage-1
\* loop (lines 200, 210, 253, 261, 297).
LoopCheck(token) == token

\* The for loop of stage 1: next file, cancellation check, status, the
\* intermediate name; after the last file the check of line 210/261 and the
\* statuses before the final encode.
process_joined_loop ==
    /\ pc = "j_loop"
    /\ IF i < Len(files)
       THEN /\ i' = i + 1
            /\ file_path' = files[i + 1]
            /\ IF LoopCheck(cancel_event)
               THEN /\ Emit(JoinedInterrupted)
                    /\ pc' = "j_finally"
                    /\ UNCHANGED <<intermediate_files, attempted>>
               ELSE /\ Emit(<<Ev("status", <<"Preparing", i + 1, Len(files)>>)>>)
                    /\ intermediate_files' = Append(intermediate_files, i)
                    /\ attempted' = Append(attempted, files[i + 1])
                    /\ pc' = "j_spawn1"
       ELSE /\ UNCHANGED <<i, file_path, intermediate_files, attempted>>
            /\ IF LoopCheck(cancel_event)
               THEN /\ Emit(JoinedInterrupted)
                    /\ pc' = "j_finally"
               ELSE /\ Emit(IF Strategy(settings) = "joined_audio"
                                   THEN <<Status("Concatenating files..."),
                                          Ev("status", <<"Exporting", "output_file">>)>>
                                   ELSE <<Status("Concatenating files...")>>)
                    /\ pc' = "run_spawn"
    /\ ffmpeg_args' = IF pc' = "run_spawn" THEN get_ffmpeg_args(settings) ELSE ffmpeg_args
    /\ UNCHANGED <<settings, total_files, failed_files, duration, tempVars, runVars>>
    /\ UNCHANGED <<file_paths, process_button, cancel_window, askyesno_open, clicks,
                   cancel_event, requested, batch, jobs, used, messagebox, progressbar,
                   ui_options, vbr_check, last_process_time, hwVars, consumer>>
    /\ UNCHANGED ctlVars

\* Stage 1: ffmpeg.run(...) starts its child (subprocess.Popen), or fails to.
process_joined_spawn(spawn_ok) ==
    /\ pc = "j_spawn1"
    /\ IF spawn_ok
       THEN /\ child' = [NoChild EXCEPT !.state = "alive", !.kind = "stage1"]
            /\ temp_files' = temp_files \cup {intermediate_files[Len(intermediate_files)]}
            /\ pc' = "j_wait1"
            /\ UNCHANGED <<gui_queue, counts>>
       ELSE /\ EmitFailure(handle_ffmpeg_error([stderr |-> ""]))
            /\ pc' = JoinedAfterError
            /\ UNCHANGED <<child, temp_files>>
    /\ UNCHANGED <<settings, ffmpeg_args, loopVars, temp_dir, drain>>
    /\ UNCHANGED uiState
    /\ UNCHANGED ctlVars
    /\ Spend(~spawn_ok)

\* Stage 1: ffmpeg.run(...) returns from communicate() once the child has
\* exited; a non-zero exit code raises ffmpeg.Error with the captured stderr.
process_joined_wait ==
    /\ pc = "j_wait1"
    /\ child.state = "exited"
    /\ IF child.rc # 0
       THEN /\ EmitFailure(handle_ffmpeg_error([stderr |-> communicate(child, FALSE)]))
            /\ pc' = JoinedAfterError
       ELSE /\ UNCHANGED <<gui_queue, counts>>
            /\ pc' = "j_loop"
    /\ child' = NoChild
    /\ UNCHANGED <<settings, ffmpeg_args, loopVars, tempVars, drain>>
    /\ UNCHANGED uiState
    /\ UNCHANGED ctlVars
    /\ UNCHANGED used

\* After run_ffmpeg_cancellable has returned normally (line 224/273).
process_joined_success ==
    /\ pc = "j_after_run"
    /\ IF ~cancel_event
       THEN Emit(<<Ev("showinfo", <<"Processing Complete", "joined">>),
                          Status("Join complete.")>>)
       ELSE UNCHANGED <<gui_queue, counts>>
    /\ pc' = "j_finally"
    /\ UNCHANGED <<settings, ffmpeg_args, loopVars, tempVars, runVars>>
    /\ UNCHANGED uiState
    /\ UNCHANGED ctlVars
    /\ UNCHANGED used

\* finally: shutil.rmtree(temp_dir) and the return to determinate mode.
process_joined_finally ==
    /\ pc = "j_finally"
    /\ temp_dir' = rmtree(temp_dir)
    /\ temp_files' = IF rmtree(temp_dir) = "removed" THEN {} ELSE temp_files
    /\ Emit(<<Ev("progress_mode", <<"determinate">>)>>)
    /\ pc' = "pf_finally"
    /\ UNCHANGED <<settings, ffmpeg_args, loopVars, runVars>>
    /\ UNCHANGED uiState
    /\ UNCHANGED ctlVars
    /\ UNCHANGED used

\* ---- run_ffmpeg_cancellable and its drain thread

\* Continuations of run_ffmpeg_cancellable in its caller: the except clauses
\* and the statement after the call.
RunRaisesInterrupted ==
    IF Joined
    THEN /\ Emit(JoinedInterrupted)
         /\ pc' = "j_finally"
         /\ UNCHANGED failed_files
    ELSE /\ UNCHANGED <<gui_queue, counts, failed_files>>
         /\ pc' = "ind_after"

RunRaisesError(e) ==
    /\ EmitFailure(handle_ffmpeg_error(e))
    /\ IF Joined
       THEN /\ pc' = JoinedAfterError
            /\ UNCHANGED failed_files
       ELSE /\ failed_files' = Append(failed_files, file_path)
            /\ pc' = "ind_loop"

RunReturns ==
    /\ pc' = IF Joined THEN "j_after_run" ELSE "ind_loop"
    /\ UNCHANGED <<gui_queue, counts, failed_files>>

\* subprocess.Popen and the start of the drain thread (lines 68-96).
run_ffmpeg_cancellable_spawn(spawn_ok) ==
    /\ pc = "run_spawn"
    /\ IF spawn_ok
       THEN /\ child' = [NoChild EXCEPT !.state = "alive",
                                        !.kind = IF Joined THEN "final" ELSE "single"]
            /\ drain' = "running"
            /\ pc' = "run_poll"
            /\ UNCHANGED <<gui_queue, counts, failed_files>>
       ELSE /\ RunRaisesError([stderr |-> ""])
            /\ UNCHANGED runVars
    /\ UNCHANGED <<settings, ffmpeg_args, i, total_files, file_path, duration, intermediate_files, tempVars>>
    /\ UNCHANGED uiState
    /\ UNCHANGED ctlVars
    /\ Spend(~spawn_ok)

\* What the polling loop does with a live child when it sees the token set.
terminate(c) ==
    [c EXCEPT !.state = "exited", !.rc = -15, !.terminated = TRUE, !.blocked = FALSE]

\* The polling loop (lines 98-102): it ends when the child has exited, or
\* terminates the child when the token is set; otherwise it sleeps.
run_ffmpeg_cancellable_poll ==
    /\ pc = "run_poll"
    /\ IF child.state = "exited"
       THEN UNCHANGED child
       ELSE /\ cancel_event
            /\ child' = terminate(child)
    /\ pc' = "run_join"
    /\ UNCHANGED <<settings, ffmpeg_args, loopVars, tempVars, drain, gui_queue, counts>>
    /\ UNCHANGED uiState
    /\ UNCHANGED ctlVars
    /\ UNCHANGED used

\* A child that exited with 0 makes the run return, whatever the token.
RunOutcome_SuccessWins(token, rc) ==
    IF rc = 0 THEN "return" ELSE IF token THEN "InterruptedError" ELSE "Error"

\* The two tests of lines 108-111 in the other order.
RunOutcome_ExitCodeFirst(token, rc) ==
    IF rc # 0 THEN "Error" ELSE IF token THEN "InterruptedError" ELSE "return"

\* The outcome of a run, decided at lines 108-111.
RunOutcome(token, rc) ==
    IF token THEN "InterruptedError" ELSE IF rc # 0 THEN "Error" ELSE "return"

\* A runner that does not wait for its drain thread.
stderr_thread_join_Skipped(thread) == TRUE

\* stderr_thread.join() (line 104) returns once the drain thread has ended.
stderr_thread_join(thread) == thread \in {"done", "died"}

\* stderr_thread.join(), communicate() and the outcome (lines 104-111).
run_ffmpeg_cancellable_finish ==
    /\ pc = "run_join"
    /\ stderr_thread_join(drain)
    /\ child.state = "exited"
    /\ LET out == RunOutcome(cancel_event, child.rc) IN
       IF out = "InterruptedError" THEN RunRaisesInterrupted
       ELSE IF out = "Error"
       THEN RunRaisesError([stderr |-> communicate(child, drain # "died")])
       ELSE RunReturns
    /\ child' = NoChild
    /\ drain' = IF drain \in {"done", "died"} THEN "none" ELSE drain
    /\ UNCHANGED <<settings, ffmpeg_args, i, total_files, file_path, duration, intermediate_files, tempVars>>
    /\ UNCHANGED uiState
    /\ UNCHANGED ctlVars
    /\ UNCHANGED used

\* The progress line the engine writes at position t (in 1/100 s) of its
\* output, as the groups of the pattern of line 77, time=HH:MM:SS.hh; <<>> is
\* a line the pattern does not match.
ffmpeg_time(t) ==
    <<t \div 360000, (t \div 6000) % 60, (t \div 100) % 60, t % 100>>

\* Line 80: h * 3600 + m * 60 + s + hs / 100 seconds, here in 1/100 s.
current_time(groups) ==
    (groups[1] * 3600 + groups[2] * 60 + groups[3]) * 100 + groups[4]

\* Line 92: min((current_time / total_duration) * 100, 100), for a positive
\* total_duration.
Progress(now, total_duration) ==
    IF now >= total_duration THEN Ratio(100, 1) ELSE Ratio(100 * now, total_duration)

\* read_pipe, lines 75-92: the events put for one line of the diagnostic
\* stream. elapsed_time is in seconds; the text of the ETA status is kept as
\* the remaining duration it is computed from.
read_pipe(line, total_duration, elapsed_time) ==
    IF total_duration # None /\ total_duration[1] # 0 /\ total_duration[1] > 0
          /\ line # <<>>
    THEN LET now == current_time(line)
             eta == IF now > 0 /\ elapsed_time > 1
                    THEN <<Ev("status", <<"ETA", total_duration[1] - now>>)>>
                    ELSE <<>>
         IN eta \o <<Ev("progress", <<Progress(now, total_duration[1])>>)>>
    ELSE <<>>

\* Lines 85-88: the remaining duration the ETA of a line is computed from,
\* None when the line gets no ETA. eta_seconds is this divided by the positive
\* speed, so it has the same sign.
remaining_duration(line, total_duration, elapsed_time) ==
    IF total_duration # None /\ total_duration[1] > 0 /\ line # <<>>
          /\ current_time(line) > 0 /\ elapsed_time > 1
    THEN Some(total_duration[1] - current_time(line))
    ELSE None

\* time.gmtime(seconds) at line 89: it returns for a time from the epoch on;
\* for a negative one it returns where the platform's C library converts
\* times before the epoch and raises OSError where it does not (Windows).
gmtime(seconds) ==
    IF seconds # None /\ seconds[1] < 0 THEN {"struct_time", "OSError"} ELSE {"struct_time"}

\* The drain thread reads one line; a line that puts nothing leaves the
\* state as it is. An exception of line 89 is caught nowhere: it ends the
\* thread before the progress event of the line is put.
read_pipe_line(line, elapsed_time) ==
    /\ drain = "running"
    /\ \E result \in gmtime(remaining_duration(line, duration, elapsed_time)) :
          IF result = "OSError"
          THEN /\ drain' = "died"
               /\ Spend(TRUE)
               /\ UNCHANGED <<gui_queue, counts>>
          ELSE /\ Spend(read_pipe(line, duration, elapsed_time) # <<>>)
               /\ Emit(read_pipe(line, duration, elapsed_time))
               /\ UNCHANGED drain
    /\ UNCHANGED <<pc, settings, ffmpeg_args, loopVars, tempVars, child>>
    /\ UNCHANGED uiState
    /\ UNCHANGED ctlVars

\* read_pipe: readline returns '' once the child has closed the pipe.
read_pipe_eof ==
    /\ drain = "running"
    /\ child.state = "exited"
    /\ drain' = "done"
    /\ UNCHANGED <<pc, settings, ffmpeg_args, loopVars, tempVars, child, gui_queue, counts>>
    /\ UNCHANGED uiState
    /\ UNCHANGED ctlVars
    /\ UNCHANGED used

\* The pipes Popen captures from a child: stdout=PIPE, stderr=PIPE (lines
\* 68-69 for the runner, ffmpeg.run(quiet=True) for stage 1).
CapturedPipes == {"stdout", "stderr"}

\* The pipes of a live child that are being read: communicate() inside
\* ffmpeg.run reads both pipes of a stage-1 child; of the runner's child only
\* stderr is read, by the drain thread, and stdout is first read by
\* communicate() at line 106, after the child has exited.
Readers(c, thread) ==
    IF c.kind = "stage1" THEN {"stdout", "stderr"}
    ELSE IF thread = "running" THEN {"stderr"} ELSE {}

\* The external engine writes more to `pipe` than the pipe buffer holds: with
\* a reader the data goes through, without one the child waits in its write.
child_fill_pipe(pipe) ==
    /\ child.state = "alive"
    /\ ~child.blocked
    /\ pipe \notin Readers(child, drain)
    /\ child' = [child EXCEPT !.blocked = TRUE]
    /\ UNCHANGED <<pc, settings, ffmpeg_args, loopVars, tempVars, drain, gui_queue, counts>>
    /\ UNCHANGED uiState
    /\ UNCHANGED ctlVars
    /\ Spend(TRUE)

\* The external engine: a running child exits by itself.
child_exit(rc, err) ==
    /\ child.state = "alive"
    /\ ~child.blocked
    /\ (rc = 0) = (err = "")
    /\ child' = [child EXCEPT !.state = "exited", !.rc = rc, !.err = err]
    /\ UNCHANGED <<pc, settings, ffmpeg_args, loopVars, tempVars, drain, gui_queue, counts>>
    /\ UNCHANGED uiState
    /\ UNCHANGED ctlVars
    /\ Spend(rc # 0)

\* ---- process_individual

\* os.path.basename(file_path) of the files the user can queue: files 2k-1
\* and 2k are recordings of one name in two formats, k.wav and k.flac.
basename(f) == [stem |-> (f + 1) \div 2, ext |-> IF f % 2 = 1 THEN "wav" ELSE "flac"]

\* Lines 301-304: os.path.splitext(basename)[0] and the output path, the
\* directory joined with the base name and the output format.
base_name(f) == basename(f).stem

output_format(s) ==
    IF s.mode = "Audio" THEN s.output_format_audio ELSE s.output_format_video

OutputFile(output_dir, f, s) == <<output_dir, base_name(f), output_format(s)>>

process_individual_prompt(output_dir) ==
    /\ pc = "ind_prompt"
    /\ output_path' = output_dir
    /\ IF Declined(output_dir)
       THEN /\ Emit(<<Status("Operation cancelled.")>>)
            /\ pc' = "pf_finally"
            /\ UNCHANGED <<total_files, failed_files, i>>
       ELSE /\ Emit(<<Ev("progress_mode", <<"determinate">>)>>)
            /\ total_files' = Len(files)
            /\ failed_files' = <<>>
            /\ i' = 0
            /\ pc' = "ind_loop"
    /\ UNCHANGED <<settings, ffmpeg_args, file_path, duration, intermediate_files, tempVars, runVars>>
    /\ UNCHANGED uiState
    /\ UNCHANGED <<strategy, probe>>
    /\ Spend(output_dir = "")

\* The for loop: next file, cancellation check, the "Converting" status.
process_individual_loop ==
    /\ pc = "ind_loop"
    /\ IF i < Len(files)
       THEN /\ i' = i + 1
            /\ file_path' = files[i + 1]
            /\ IF LoopCheck(cancel_event)
               THEN /\ Emit(<<Status("Conversion process cancelled.")>>)
                    /\ pc' = "ind_after"
                    /\ UNCHANGED <<attempted, duration, probe>>
               ELSE /\ Emit(<<Ev("status", <<"Converting", i + 1, total_files, files[i + 1]>>)>>)
                    /\ attempted' = Append(attempted, files[i + 1])
                    /\ duration' = None /\ probe' = "none"
                    /\ pc' = "ind_probe"
       ELSE /\ UNCHANGED <<i, file_path, gui_queue, counts, attempted, duration, probe>>
            /\ pc' = "ind_after"
    /\ UNCHANGED <<settings, ffmpeg_args, total_files, failed_files, intermediate_files, tempVars, runVars>>
    /\ UNCHANGED <<file_paths, process_button, cancel_window, askyesno_open, clicks,
                   cancel_event, requested, batch, jobs, used, messagebox, progressbar,
                   ui_options, vbr_check, last_process_time, hwVars, consumer>>
    /\ UNCHANGED <<strategy, output_path>>

\* A probe failure that is not caught next to the probe: it reaches the except
\* clause of the loop and the loop goes on with the next file.
AfterProbeError_NextFile == "ind_loop"

\* Where `except Exception` of the probe (lines 313-314) leads: on to the
\* conversion of the same file.
AfterProbeError == "run_spawn"

\* ffmpeg.probe for the duration (lines 309-314), made when the probe path is
\* set and exists; its failure is swallowed.
process_individual_probe(exists, ok, seconds) ==
    /\ pc = "ind_probe"
    /\ IF ~exists
       THEN /\ ~ok
            /\ duration' = None /\ probe' = "none"
            /\ pc' = "run_spawn"
            /\ UNCHANGED <<gui_queue, counts>>
       ELSE IF ok
       THEN /\ duration' = Some(seconds) /\ probe' = "ok"
            /\ pc' = "run_spawn"
            /\ UNCHANGED <<gui_queue, counts>>
       ELSE /\ duration' = None /\ probe' = "failed"
            /\ pc' = AfterProbeError
            /\ Emit(<<Ev("status", <<"ETA not available", i, total_files>>)>>)
    /\ ffmpeg_args' = IF pc' = "run_spawn" THEN get_ffmpeg_args(settings) ELSE ffmpeg_args
    /\ UNCHANGED <<settings, i, total_files, failed_files, file_path, intermediate_files,
                   tempVars, runVars>>
    /\ UNCHANGED uiState
    /\ UNCHANGED <<strategy, output_path>>
    /\ Spend(exists /\ ~ok)

\* The summary after the loop (lines 330-335).
Summary(total, failed) ==
    Ev("showinfo", <<"Processing Complete", "summary", total - Len(failed), failed>>)

process_individual_summary ==
    /\ pc = "ind_after"
    /\ IF ~cancel_event
       THEN Emit(<<Summary(total_files, failed_files),
                          Status("Individual conversion complete.")>>)
       ELSE UNCHANGED <<gui_queue, counts>>
    /\ pc' = "pf_finally"
    /\ UNCHANGED <<settings, ffmpeg_args, loopVars, tempVars, runVars>>
    /\ UNCHANGED uiState
    /\ UNCHANGED ctlVars
    /\ UNCHANGED used

\* ---- encoder detection (run_encoder_detection and HardwareManager)

\* An identifier of the encoder table is kept as its parts between the
\* underscores: h264_nvenc is <<"h264", "nvenc">>. The patterns of lines
\* 350-351.
hw_patterns ==
    {<<codec, api>> : codec \in {"h264", "hevc"},
                      api \in {"nvenc", "amf", "qsv", "videotoolbox"}}

\* `p in encoder` for a pattern and an identifier: p is a run of parts of it.
Contains(p, encoder) ==
    \E k \in 1..(Len(encoder) - Len(p) + 1) : SubSeq(encoder, k, k + Len(p) - 1) = p

\* `word in line` (line 353) for a line of the table, kept as its flags, its
\* identifier and the words of its description; the comparison is
\* case-sensitive.
InLine(word, line) ==
    \/ \E k \in DOMAIN line.text : line.text[k] = word
    \/ \E k \in DOMAIN line.name : line.name[k] = word

\* re.search(r'^\s*V.....\s+([a-zA-Z0-9_]+)', line) (line 354): the line is
\* that of a video encoder and has an identifier.
MatchesVideo(line) == line.flags = "V" /\ line.name # <<>>

\* The loop of lines 352-358: the identifiers appended to found_encoders.
RECURSIVE found_encoders(_)
found_encoders(lines) ==
    IF lines = <<>> THEN <<>>
    ELSE (IF InLine("encoder", Head(lines)) /\ MatchesVideo(Head(lines))
             /\ \E p \in hw_patterns : Contains(p, Head(lines).name)
          THEN <<Head(lines).name>> ELSE <<>>) \o found_encoders(Tail(lines))

\* The identifiers of the model in the order of Python's string comparison.
SortedNames ==
    <<(<<"aac">>), <<"h264", "nvenc">>, <<"h264", "qsv">>, <<"h264", "v4l2m2m">>,
      <<"hevc", "amf">>, <<"hevc", "videotoolbox">>>>

\* sorted(list(set(found))) (line 360).
SortedSet(found) == SelectSeq(SortedNames, LAMBDA n : n \in SeqToSet(found))

\* Lines 363-367 of the manual test: the status text.
status_msg(encoders) ==
    IF \E k \in DOMAIN encoders :
          \E api \in {"nvenc", "amf", "qsv"} : Contains(<<api>>, encoders[k])
    THEN "Status: Test Complete" ELSE "Status: No Supported GPU Detected"

\* The task of run_encoder_detection (lines 346-378): `ffmpeg -encoders`
\* succeeds and its output is filtered, or it raises and the empty list is
\* reported.
run_encoder_detection_task(ok) ==
    /\ detection \in {"auto", "manual"}
    /\ LET found == IF ok THEN SortedSet(found_encoders(encoders_info)) ELSE <<>>
       IN Emit(IF detection = "auto" THEN <<Ev("update_codecs", <<"codecs", found>>)>>
               ELSE IF ok
               THEN <<Ev("codec_test_finished", <<status_msg(found), found>>)>>
               ELSE <<Ev("codec_test_finished", <<"Status: Test Failed", found>>),
                      Ev("update_codecs", <<"codecs", found>>)>>)
    /\ detection' = "done"
    /\ Spend(~ok)
    /\ UNCHANGED <<file_paths, process_button, cancel_window, askyesno_open, clicks,
                   cancel_event, requested, attempted, batch, jobs, messagebox, progressbar,
                   ui_options, vbr_check, last_process_time, hw_encoders, encoders_info,
                   consumer>>
    /\ UNCHANGED jobVars

\* HardwareManager.run_codec_test (lines 358-368): the user starts the manual
\* test, with an engine path that exists.
run_codec_test ==
    /\ ~Modal
    /\ detection = "done"
    /\ ui_options.ffmpeg_path \in ExistingPaths
    /\ detection' = "manual"
    /\ Spend(TRUE)
    /\ UNCHANGED <<file_paths, process_button, cancel_window, askyesno_open, clicks,
                   cancel_event, gui_queue, counts, requested, attempted, batch, jobs,
                   messagebox, progressbar, ui_options, vbr_check, last_process_time,
                   hw_encoders, encoders_info, consumer>>
    /\ UNCHANGED jobVars

\* ---------------------------------------------------------------- Next
UIStep ==
    \/ \E f \in Files \ SeqToSet(file_paths) :
          f = NextFile(file_paths) /\ add_files_to_list(<<f>>)
    \/ \E k \in 1..Len(file_paths) : remove_selected(k)
    \/ clear_all
    \/ \E from \in 1..Len(file_paths), to \in 1..Len(file_paths) : on_drag_release(from, to)
    \/ start_processing_thread
    \/ cancel_button
    \/ \E yes \in BOOLEAN : cancel_processing(yes)
    \/ process_gui_queue(FALSE)
    \/ showerror_ok
    \/ messagebox_ok
    \/ \E options \in SettingsSpace : set_option(options)

\* In the jobs of Spec a probe that succeeds finds a file of one minute, whose
\* engine run reports the position 30 s, early or late in the run.
OneMinute == 6000
ElapsedTimes == {0, 2}

JobStep ==
    \/ process_files
    \/ process_files_finally
    \/ \E output_file \in {"", "out"}, mkdtemp_ok \in BOOLEAN :
          process_joined_prompt(output_file, mkdtemp_ok)
    \/ process_joined_loop
    \/ \E spawn_ok \in BOOLEAN : process_joined_spawn(spawn_ok)
    \/ process_joined_wait
    \/ process_joined_success
    \/ process_joined_finally
    \/ \E spawn_ok \in BOOLEAN : run_ffmpeg_cancellable_spawn(spawn_ok)
    \/ run_ffmpeg_cancellable_poll
    \/ run_ffmpeg_cancellable_finish
    \/ \E output_dir \in {"", "dir"} : process_individual_prompt(output_dir)
    \/ process_individual_loop
    \/ \E exists \in BOOLEAN, ok \in BOOLEAN :
          process_individual_probe(exists, ok, OneMinute)
    \/ process_individual_summary

DrainStep ==
    \/ \E elapsed_time \in ElapsedTimes :
          read_pipe_line(ffmpeg_time(OneMinute \div 2), elapsed_time)
    \/ read_pipe_eof

ChildStep ==
    \/ \E rc \in {0, 1}, err \in DiagTexts \cup {""} : child_exit(rc, err)
    \/ \E pipe \in CapturedPipes : child_fill_pipe(pipe)

Next == UIStep \/ JobStep \/ DrainStep \/ ChildStep

Spec == Init /\ [][Next]_vars

\* ---------------------------------------------------------------- the file list
\* The file list alone, with enough files to reach the limit: the user adds
\* files one at a time or many at once, and removes or drags the first or the
\* last entry.
ListFiles == 1..(FileLimit + 2)

\* The n first files of ListFiles that are not in paths, in order.
RECURSIVE Fresh(_, _)
Fresh(paths, n) ==
    IF n = 0 \/ ListFiles \ SeqToSet(paths) = {} THEN <<>>
    ELSE LET f == CHOOSE x \in ListFiles \ SeqToSet(paths) :
                      \A y \in ListFiles \ SeqToSet(paths) : x <= y
         IN <<f>> \o Fresh(Append(paths, f), n - 1)

\* What the user selects in the file dialog or drops on the list: new files,
\* or a file of the list followed by a new one.
Selections(paths) ==
    {Fresh(paths, n) : n \in {1, 2, FileLimit - 1, FileLimit + 1}}
        \cup {<<paths[k]>> \o Fresh(paths, 1) : k \in DOMAIN paths \cap {1}}

Ends(paths) == {1, Len(paths)} \cap DOMAIN paths

ListNext ==
    \/ \E fs \in Selections(file_paths) : add_files_to_list(fs)
    \/ \E k \in Ends(file_paths) : remove_selected(k)
    \/ clear_all
    \/ \E from \in Ends(file_paths), to \in Ends(file_paths) : on_drag_release(from, to)
    \/ messagebox_ok

ListSpec == Init /\ [][ListNext]_vars

\* ---------------------------------------------------------------- the argument set
\* get_ffmpeg_args over the values of the widgets it reads: one job on one
\* file, in each mode, joined or not, up to the start of the engine run that
\* is given the argument set.
ArgsSettings ==
    {s @@ w : s \in [mode : {"Audio", "Video"}, join_files_audio : BOOLEAN,
                     join_files_video : {FALSE}, ffmpeg_path : {"ffmpeg"}],
              w \in WidgetValues}

ArgsInit == \E options \in ArgsSettings : InitWith(options)

ArgsNext ==
    \/ file_paths = <<>> /\ add_files_to_list(<<1>>)
    \/ start_processing_thread
    \/ process_files
    \/ process_joined_prompt("out", TRUE)
    \/ process_joined_loop
    \/ process_joined_spawn(TRUE)
    \/ child_exit(0, "")
    \/ process_joined_wait
    \/ process_individual_prompt("dir")
    \/ process_individual_loop
    \/ process_individual_probe(FALSE, FALSE, 0)

ArgsSpec == ArgsInit /\ [][ArgsNext]_vars

\* ---------------------------------------------------------------- the rate mode
\* The audio format box, the VBR checkbox and Restore Defaults, from every
\* saved configuration of the two: the user changes them at any time, and one
\* job on one file takes its snapshot and builds its argument set.
AudioFormats == {"mp3", "wav", "aac", "flac", "aiff", "ogg", "alac"}

SavedConfigurations ==
    {[NoSettings EXCEPT !.ffmpeg_path = "ffmpeg", !.output_format_audio = format,
                        !.vbr_mode = vbr_mode] :
        format \in AudioFormats, vbr_mode \in BOOLEAN}

WidgetInit == \E options \in SavedConfigurations : InitWith(options)

WidgetNext ==
    \/ \E format \in AudioFormats : select_format(format)
    \/ vbr_check_click
    \/ restore_defaults
    \/ messagebox_ok
    \/ file_paths = <<>> /\ add_files_to_list(<<1>>)
    \/ start_processing_thread
    \/ process_files
    \/ process_individual_prompt("dir")
    \/ process_individual_loop
    \/ process_individual_probe(FALSE, FALSE, 0)

WidgetSpec == WidgetInit /\ [][WidgetNext]_vars

\* ---------------------------------------------------------------- one batch
\* The jobs of a user who queues files and then leaves the list and the
\* options alone: Start, Cancel and its confirmation, the consumer, the job
\* thread, the drain thread and the children.
RunNext ==
    \/ \E f \in Files \ SeqToSet(file_paths) :
          f = NextFile(file_paths) /\ pc = "idle" /\ add_files_to_list(<<f>>)
    \/ start_processing_thread
    \/ messagebox_ok
    \/ cancel_button
    \/ \E yes \in BOOLEAN : cancel_processing(yes)
    \/ process_gui_queue(FALSE)
    \/ showerror_ok
    \/ JobStep
    \/ DrainStep
    \/ ChildStep

RunSpec == Init /\ [][RunNext]_vars

\* ---------------------------------------------------------------- encoder detection
\* The detection thread started by the constructor and by the manual test,
\* over the encoder tables an engine can print: the heading, video encoders
\* whose description has the word encoder (NVENC, V4L2), has it capitalised
\* (AMF, VideoToolbox) or does not have it (Quick Sync), and an audio encoder.
MaxLines == 2

TableLines ==
    {[flags |-> "", name |-> <<>>, text |-> <<"Encoders:">>],
     [flags |-> "V", name |-> <<"h264", "nvenc">>, text |-> <<"NVIDIA", "encoder">>],
     [flags |-> "V", name |-> <<"hevc", "amf">>, text |-> <<"AMD", "Encoder">>],
     [flags |-> "V", name |-> <<"h264", "qsv">>, text |-> <<"Intel", "acceleration">>],
     [flags |-> "V", name |-> <<"hevc", "videotoolbox">>, text |-> <<"VideoToolbox", "encoder">>],
     [flags |-> "V", name |-> <<"h264", "v4l2m2m">>, text |-> <<"V4L2", "encoder">>],
     [flags |-> "A", name |-> <<"aac">>, text |-> <<"AAC", "encoder">>]}

Tables == UNION {[1..n -> TableLines] : n \in 0..MaxLines}

DetectInit ==
    \E table \in Tables : InitOf([NoSettings EXCEPT !.ffmpeg_path = "ffmpeg"], table, "auto")

DetectNext ==
    \/ \E ok \in BOOLEAN : run_encoder_detection_task(ok)
    \/ run_codec_test
    \/ process_gui_queue(FALSE)

DetectSpec == DetectInit /\ [][DetectNext]_vars

\* ---------------------------------------------------------------- the drain thread
\* read_pipe over durations and lines: the individual conversion of one file
\* up to its engine run, the probe finding no duration or one of Durations
\* (in 1/100 s), and the drain thread reading lines without a timestamp and
\* lines of the engine at the positions of Positions, before, at and after
\* the probed duration.
Durations == {-6000, 0, 1, 3000, 6000, 9000}

Positions == {0, 1, 3000, 4500, 6000, 9050, 360000, 35999999}

PipeLines == {<<>>} \cup {ffmpeg_time(t) : t \in Positions}

PipeInit ==
    \E options \in {o \in StartSettings : Strategy(o) = "individual"} : InitWith(options)

PipeNext ==
    \/ file_paths = <<>> /\ add_files_to_list(<<1>>)
    \/ start_processing_thread
    \/ process_files
    \/ process_individual_prompt("dir")
    \/ process_individual_loop
    \/ \E exists \in BOOLEAN, ok \in BOOLEAN, seconds \in Durations :
          process_individual_probe(exists, ok, seconds)
    \/ run_ffmpeg_cancellable_spawn(TRUE)
    \/ \E line \in PipeLines, elapsed_time \in ElapsedTimes :
          read_pipe_line(line, elapsed_time)

PipeSpec == PipeInit /\ [][PipeNext]_vars

\* ---------------------------------------------------------------- the consumer
\* The jobs of RunSpec with handlers of the consumer that can raise. The Tk
\* main loop runs a timer that is due (after(100, ...) at lines 660 and 1276);
\* nothing makes the user close a dialog.
get_message == \E raised \in BOOLEAN : process_gui_queue(raised)

QueueNext == RunNext \/ process_gui_queue(TRUE)

QueueSpec == Init /\ [][QueueNext]_vars /\ WF_vars(get_message)

\* ---------------------------------------------------------------- the job thread
\* The jobs of RunSpec under the scheduling of the program: a thread that can
\* take a step takes it (the job thread outside the destination prompt, which
\* waits for the user; the drain thread at the end of the stream), the Tk main
\* loop runs the consumer's timer, and a child that is not waiting in a write
\* exits.
JobThread ==
    \/ process_files
    \/ process_files_finally
    \/ process_joined_loop
    \/ \E spawn_ok \in BOOLEAN : process_joined_spawn(spawn_ok)
    \/ process_joined_wait
    \/ process_joined_success
    \/ process_joined_finally
    \/ \E spawn_ok \in BOOLEAN : run_ffmpeg_cancellable_spawn(spawn_ok)
    \/ run_ffmpeg_cancellable_poll
    \/ run_ffmpeg_cancellable_finish
    \/ process_individual_loop
    \/ \E exists \in BOOLEAN, ok \in BOOLEAN :
          process_individual_probe(exists, ok, OneMinute)
    \/ process_individual_summary

ChildExits == \E rc \in {0, 1}, err \in DiagTexts \cup {""} : child_exit(rc, err)

JobSpec ==
    /\ Init /\ [][RunNext]_vars
    /\ WF_vars(JobThread) /\ WF_vars(read_pipe_eof) /\ WF_vars(ChildExits)
    /\ WF_vars(get_message)

\* ---------------------------------------------------------------- claims
IsPrefix(s, t) == Len(s) <= Len(t) /\ SubSeq(t, 1, Len(s)) = s

JobRunning == pc # "idle"
JobEnded == pc = "idle" /\ jobs > 0

\* C1: after processing_done has been put, no event is put (by the job thread,
\* a drain thread or the cancel handler) until a new job is started.
C1_ProcessingDoneIsLast == counts.done > 0 => counts.late = 0

\* C2: when the token is set while the child of run_ffmpeg_cancellable is
\* alive, a poll that finds the child alive terminates it, and the run ends
\* with InterruptedError: never a normal return (the caller would continue at
\* the statement after the call) and never an engine failure (no error event).
C2_CancelledRunRaisesInterrupted ==
    [][ /\ (pc = "run_poll" /\ child.state = "alive" /\ cancel_event /\ pc' # pc)
            => child'.terminated
        /\ (pc = "run_join" /\ child.cancelled /\ pc' # pc)
            => /\ pc' \in {"j_finally", "ind_after"}
               /\ counts'.showerror = counts.showerror
               /\ counts'.failures = counts.failures
               /\ Joined => counts'.cancelled = counts.cancelled + 1 ]_vars

C2_Witness ==
    pc = "run_join" /\ child.cancelled /\ child.terminated /\ drain = "done"

\* C3: in both joined strategies the pipeline is never blocked awaiting a
\* stage-1 child once the token is set: it has a step to take (terminating the
\* child), so the job ends as cancelled even if the child never exits.
C3_Stage1ChildIsTerminated ==
    (Joined /\ child.kind = "stage1" /\ child.state = "alive" /\ cancel_event)
        => ENABLED JobStep

\* C4: when a joined job ends, by success, engine failure, spawn failure or
\* cancellation, its staging directory and every intermediate file are gone;
\* when the save prompt is cancelled no staging directory was created.
C4_TempCleanup ==
    /\ (pc \in {"pf_finally", "idle"}) => (temp_dir # "exists" /\ temp_files = {})
    /\ temp_files # {} => temp_dir = "exists"
    /\ (pc = "pf_finally" /\ Joined /\ counts.cancelled = 0 /\ counts.failures = 0
          /\ counts.success = 0 /\ ~requested) => temp_dir = "none"

C4_Witness ==
    JobEnded /\ Joined /\ temp_dir = "removed" /\ counts.cancelled = 1

\* C5: in the Individual strategy with no cancellation, every file of the
\* batch is attempted exactly once in list order and the summary reports
\* succeeded = the number of files whose run succeeded, with
\* succeeded + failed = batch size.
C5_IndividualSummary ==
    (pc = "ind_after" /\ ~requested)
        => /\ attempted = batch
           /\ Summary(total_files, failed_files)[2][3] = Len(attempted) - Len(failed_files)
           /\ Summary(total_files, failed_files)[2][3] + Len(failed_files) = Len(batch)

\* C6: while a job is running, edits of the UI's list do not change the
\* sequence of files the job processes: the job's list is the batch that
\* existed when Start was pressed, and the files it takes are that batch in
\* order.
C6_JobProcessesBatch ==
    JobRunning => (files = batch /\ IsPrefix(attempted, batch))

\* C7: from the start of a job until its processing_done is put the token is
\* never cleared; the only clear is the one made when a new job is started.
C7_TokenNeverClearedDuringJob ==
    [][(cancel_event /\ ~cancel_event')
         => (pc = "idle" /\ pc' = "process_files" /\ jobs' = jobs + 1)]_vars

C7_Witness ==
    jobs = 2 /\ clicks > 0 /\ ~cancel_event /\ pc = "process_files"

\* C8: once the token is set, the job puts no error-dialog event, whatever
\* then happens to the running child or to later steps.
C8_NoErrorDialogAfterCancel ==
    [][(JobRunning /\ cancel_event) => counts'.showerror = counts.showerror]_vars

\* C9: a joined job during which the token was set has put exactly one
\* 'Join process cancelled.' status and no 'Processing Complete' event when
\* it ends.
C9_JoinedCancelledOnce ==
    (JobEnded /\ Joined /\ requested) => (counts.cancelled = 1 /\ counts.success = 0)

\* C10: in a joined job with no cancellation the first failure stops the job:
\* afterwards no child exists or is spawned, exactly one error-dialog event
\* has been put and no success event is put.
C10_JoinedFailureIsFatal ==
    (Joined /\ ~requested /\ counts.failures > 0)
        => /\ counts.failures = 1
           /\ counts.showerror = 1
           /\ counts.success = 0
           /\ child.state = "none"
           /\ pc \in {"j_finally", "pf_finally", "idle"}

C10_Witness ==
    /\ Joined /\ ~requested /\ counts.failures = 1 /\ pc = "j_finally"
    /\ Len(batch) = 2 /\ attempted = <<batch[1]>> /\ files = batch

\* The two events put by the step just taken.
LastTwo(q) == SubSeq(q, Len(q) - 1, Len(q))

\* run_ffmpeg_cancellable is about to raise an engine failure: the child has
\* exited with a non-zero code and the token is not set.
RunFails ==
    /\ pc = "run_join" /\ pc' # pc
    /\ child.state = "exited" /\ child.rc # 0 /\ ~cancel_event

\* C11: when a run made through run_ffmpeg_cancellable fails with a non-zero
\* exit code and no cancellation, the error event put for it is the one built
\* from the diagnostic text the child wrote during that run.
C11_FailureCarriesDiagnostics ==
    [][RunFails => LastTwo(gui_queue') = handle_ffmpeg_error([stderr |-> child.err])]_vars

\* An engine run of any strategy or stage is found to have failed: the stage-1
\* child or the child of run_ffmpeg_cancellable has exited with a non-zero code.
EngineFails ==
    \/ RunFails
    \/ pc = "j_wait1" /\ pc' # pc /\ child.state = "exited" /\ child.rc # 0

\* C12: the error event of a failed engine run has the title 'Unsupported
\* Codec' and the remediation text when the child's diagnostic output contains
\* 'Unknown encoder' or 'Unknown decoder', and otherwise the title 'FFmpeg
\* Error' and the raw diagnostic text.
C12_ErrorCategory ==
    [][EngineFails =>
         LET ev == LastTwo(gui_queue')[1] IN
         /\ ev[1] = "showerror"
         /\ IF child.err \in {"Unknown encoder", "Unknown decoder"}
            THEN ev[2] = <<"Unsupported Codec", "remediation">>
            ELSE ev[2] = <<"FFmpeg Error", child.err>>]_vars

\* C13: an Individual job puts no error-dialog event: a failed file is reported
\* only through the summary at the end of the batch.
C13_IndividualNoErrorDialog ==
    (Strategy(settings) = "individual" /\ jobs > 0) => counts.showerror = 0

\* The job thread starts a child process in this step: an engine child, or the
\* probe of process_individual.
SpawnStep ==
    \/ child.state = "none" /\ child'.state = "alive"
    \/ pc = "ind_probe" /\ probe' \in {"ok", "failed"}

\* The positions of the checks between files and stages, and the positions
\* after a strategy has left its loop.
CheckPcs == {"j_loop", "ind_loop"}
StoppedPcs == {"j_finally", "ind_after", "pf_finally"}

\* C14 as stated: once the token is set the job starts no child process, in
\* any strategy.
C14_NoSpawnAfterTokenSet ==
    [][(JobRunning /\ cancel_event) => ~SpawnStep]_vars

\* C14 as amended: a check between files or stages that finds the token set
\* stops the job, which from then on starts no child process for the current
\* or any later file or stage.
C14_SeenCancelStopsJob ==
    [][ /\ (pc \in CheckPcs /\ cancel_event /\ pc' # pc)
            => (pc' \in StoppedPcs /\ ~SpawnStep)
        /\ (pc \in StoppedPcs)
            => (~SpawnStep /\ child'.state = "none" /\ pc' \in StoppedPcs \cup {"idle"}) ]_vars

C14_Witness ==
    /\ pc \in {"j_finally", "ind_after"} /\ cancel_event /\ files = batch
    /\ Len(attempted) = 1 /\ i = 2 /\ Len(batch) = 2 /\ child.state = "none"

\* Start would have to be rejected: the list is empty, or the engine path is
\* unset or names no existing file.
BadStart ==
    \/ file_paths = <<>>
    \/ ui_options.ffmpeg_path = ""
    \/ ui_options.ffmpeg_path \notin ExistingPaths

\* C15: pressing Start with an empty list or without a valid engine path
\* starts no job thread and no process, puts nothing on the queue and leaves
\* the token, the Start button and the progress value as they are; a job is
\* only ever started from a non-empty list with a valid engine path.
C15_BadStartRejected ==
    [][ /\ (start_processing_thread /\ BadStart)
            => /\ UNCHANGED <<pc, jobs, child, drain, gui_queue, counts>>
               /\ UNCHANGED <<cancel_event, process_button, progressbar>>
               /\ messagebox' \in {"FFmpeg Not Found", "Error"}
        /\ (jobs' # jobs \/ (pc = "idle" /\ pc' # "idle")) => ~BadStart ]_vars

C15_Witness ==
    /\ messagebox = "Error" /\ file_paths = <<>> /\ jobs = 1 /\ pc = "idle"
    /\ process_button = "normal"

\* C16: the file list never holds more than 20 entries; no step taken from a
\* full list brings a new file into it, and an add made on a full list (which
\* shows the limit warning) leaves the list unchanged.
C16_ListAtMostTwenty ==
    [][ /\ Len(file_paths') <= FileLimit
        /\ Len(file_paths) = FileLimit
            => SeqToSet(file_paths') \subseteq SeqToSet(file_paths)
        /\ (Len(file_paths) = FileLimit /\ messagebox = "none"
              /\ messagebox' = "Limit Reached")
            => file_paths' = file_paths ]_vars

\* The list was filled to the limit, its last entry was dragged to the top,
\* and a further add has shown the warning.
C16_Witness ==
    /\ Len(file_paths) = FileLimit /\ messagebox = "Limit Reached"
    /\ file_paths[1] = FileLimit /\ used = 2

\* C17: when the destination prompt returns no path the job puts its
\* cancellation status ('Save cancelled.' in a joined strategy, 'Operation
\* cancelled.' in the Individual one) and ends: it puts no error-dialog event
\* and no success summary, starts no child process and creates no staging
\* directory.
C17_DeclinedPromptEndsJob ==
    [][ /\ (output_path # "" /\ output_path' = "")
            => gui_queue' = gui_queue \o
                 (IF strategy = "individual"
                  THEN <<Status("Operation cancelled.")>>
                  ELSE <<Status("Save cancelled."), Ev("progress_mode", <<"determinate">>)>>)
        /\ output_path' = ""
            => /\ counts'.showerror = 0 /\ counts'.success = 0 /\ counts'.failures = 0
               /\ temp_dir' = "none" /\ temp_files' = {}
               /\ child'.state = "none" /\ ~SpawnStep /\ attempted' = <<>>
               /\ pc' \in {"pf_finally", "idle"} ]_vars

C17_Witness ==
    /\ output_path = "" /\ pc = "idle" /\ strategy = "joined_video"
    /\ counts.done = 1 /\ temp_dir = "none"

\* C18: the settings of a job are the values the option widgets had when
\* Start was pressed, and they stay so until the job has ended, whatever the
\* user changes meanwhile: no step of the pipeline or of the UI writes to the
\* snapshot, so every file and stage of the job is given arguments built from
\* the same settings and runs the same strategy.
C18_SettingsAreSnapshot ==
    [][ /\ jobs' = jobs + 1 => settings' = ui_options
        /\ (pc # "idle" /\ pc' # "idle") => settings' = settings
        /\ (pc # "idle" /\ strategy # "none") => strategy = Strategy(settings) ]_vars

\* The mode widget was changed while the first file was being converted, and
\* the job has gone on to its second file.
C18_Witness ==
    /\ pc \in {"ind_probe", "j_spawn1"} /\ Len(attempted) = 2 /\ files = batch
    /\ ui_options.mode # settings.mode

\* The positions inside the joined strategies and inside process_individual.
JoinedPcs == {"j_prompt", "j_loop", "j_spawn1", "j_wait1", "j_after_run", "j_finally"}
IndividualPcs == {"ind_prompt", "ind_loop", "ind_probe", "ind_after"}

\* C19: a job enters one strategy, once, at its start: joined-audio iff the
\* mode is Audio and the audio join flag is set, joined-video iff the mode is
\* Video and the video join flag is set, Individual otherwise (whatever the
\* join flag of the other mode); it is in no other strategy's code afterwards.
C19_OneStrategyPerJob ==
    [][ /\ strategy' # strategy
            => \/ strategy' = "none" /\ jobs' = jobs + 1
               \/ /\ strategy = "none" /\ pc = "process_files"
                  /\ (strategy' = "joined_audio")
                       <=> (settings.mode = "Audio" /\ settings.join_files_audio)
                  /\ (strategy' = "joined_video")
                       <=> (settings.mode = "Video" /\ settings.join_files_video)
                  /\ (strategy' = "individual")
                       <=> ~ \/ settings.mode = "Audio" /\ settings.join_files_audio
                             \/ settings.mode = "Video" /\ settings.join_files_video
        /\ pc' \in JoinedPcs => strategy' \in {"joined_audio", "joined_video"}
        /\ pc' \in IndividualPcs => strategy' = "individual"
        /\ (pc # "process_files" /\ pc' \notin {"idle", "process_files"})
            => strategy' = strategy ]_vars

\* Video mode with only the audio join flag set, after the user has changed
\* the mode: the job is in the Individual strategy.
C19_Witness ==
    /\ strategy = "individual" /\ pc = "ind_probe" /\ used > 0
    /\ settings.mode = "Video" /\ settings.join_files_audio /\ ~settings.join_files_video

\* The events put by the step just taken (none when the step took one off).
NewEvents == SubSeq(gui_queue', Len(gui_queue) + 1, Len(gui_queue'))

IsProgressOrEta(e) == e[1] = "progress" \/ (e[1] = "status" /\ e[2][1] = "ETA")

\* C20: in the Individual strategy a failed duration probe puts no error and
\* does not mark the file as failed; the engine is started for that file all
\* the same, its run puts no percentage and no ETA event, and the file is only
\* marked as failed if the engine run itself fails.
C20_ProbeFailureIsHarmless ==
    [][ /\ (pc = "ind_probe" /\ probe' = "failed")
            => /\ pc' = "run_spawn" /\ duration' = None
               /\ failed_files' = failed_files
               /\ counts'.showerror = counts.showerror
        /\ (probe = "failed" /\ pc = "run_spawn" /\ pc' # pc)
            => (child'.state = "alive" \/ counts'.failures = counts.failures + 1)
        /\ probe = "failed"
            => \A k \in DOMAIN NewEvents : ~IsProgressOrEta(NewEvents[k])
        /\ (probe = "failed" /\ Len(failed_files') > Len(failed_files))
            => (pc \in {"run_spawn", "run_join"}
                  /\ counts'.failures = counts.failures + 1) ]_vars

\* The probe of the only file failed, its conversion succeeded, and the loop
\* has ended with no failed file.
C20_Witness ==
    /\ pc = "ind_after" /\ probe = "failed" /\ failed_files = <<>>
    /\ attempted = batch /\ ~requested /\ ~cancel_event

\* The names of the intermediate files of n inputs, in order: 0.ts, 1.ts, ...
IntermediateNames(n) == [k \in 1..n |-> k - 1]

\* C21: when the final encode of a joined job is started, its concatenation
\* input names one intermediate file per file of the batch, made from the
\* files of the batch in list order.
C21_ConcatIsBatchInOrder ==
    (Joined /\ pc \in {"run_spawn", "run_poll", "run_join", "j_after_run"})
        => /\ attempted = batch
           /\ intermediate_files = IntermediateNames(Len(batch))

\* The engine run of this file or stage is about to get ffmpeg_args.
ArgsBuilt == pc = "run_spawn" /\ ffmpeg_args = get_ffmpeg_args(settings)

HasArg(k) == k \in DOMAIN ffmpeg_args

\* C22: the argument set holds exactly one of the strip-metadata marker
\* (map_metadata = -1, when preserve-metadata is off) and the map-all-streams
\* marker (map = '0', when it is on).
C22_OneMetadataMarker ==
    pc = "run_spawn"
        => /\ HasArg("map_metadata") # HasArg("map")
           /\ HasArg("map_metadata") <=> ~settings.metadata
           /\ HasArg("map_metadata") => ffmpeg_args["map_metadata"] = -1
           /\ HasArg("map") => ffmpeg_args["map"] = "0"

C22_Witness == ArgsBuilt /\ ~settings.metadata /\ HasArg("map_metadata")

\* C23: in Audio mode the argument set holds exactly one of the quality-level
\* argument (iff variable bitrate is selected) and the fixed-bitrate argument.
C23_OneAudioRateArgument ==
    (pc = "run_spawn" /\ settings.mode = "Audio")
        => /\ HasArg("q:a") # HasArg("audio_bitrate")
           /\ HasArg("q:a") <=> settings.vbr_mode
           /\ HasArg("q:a") => ffmpeg_args["q:a"] = settings.vbr_quality
           /\ HasArg("audio_bitrate") => ffmpeg_args["audio_bitrate"] = settings.bitrate

C23_Witness ==
    ArgsBuilt /\ settings.mode = "Audio" /\ settings.vbr_mode /\ HasArg("q:a")

\* The ways run_ffmpeg_cancellable ends, seen by its caller: it returns (the
\* caller goes on after the call and nothing is put), it raises ffmpeg.Error
\* (the caller's handler reports a failure), it raises InterruptedError.
RunReturned ==
    /\ pc' = IF Joined THEN "j_after_run" ELSE "ind_loop"
    /\ gui_queue' = gui_queue
    /\ counts'.failures = counts.failures

RunFailed == counts'.failures = counts.failures + 1

RunInterrupted ==
    /\ pc' \in {"j_finally", "ind_after"}
    /\ counts'.failures = counts.failures
    /\ counts'.showerror = counts.showerror

\* C24: at the end of run_ffmpeg_cancellable, the run returns iff the child
\* exited with 0 and the token is not set, raises the engine failure iff the
\* exit code is not 0 and the token is not set, and raises the cancellation
\* whenever the token is set, whatever the exit code.
C24_RunOutcome ==
    [][ (pc = "run_join" /\ pc' # pc)
            => /\ RunReturned <=> (child.rc = 0 /\ ~cancel_event)
               /\ RunFailed <=> (child.rc # 0 /\ ~cancel_event)
               /\ RunInterrupted <=> cancel_event ]_vars

\* The child exited with 0 by itself and the token is set when the run ends.
C24_Witness ==
    /\ pc = "run_join" /\ drain = "done" /\ child.state = "exited"
    /\ child.rc = 0 /\ ~child.terminated /\ cancel_event

\* C25: a drain thread runs only inside run_ffmpeg_cancellable: when the run
\* has returned or raised, on any path, its drain thread has ended, so every
\* event of the thread was put before that and none is put after an event of
\* the next file or stage.
C25_DrainEndsWithRun ==
    /\ drain = "running" => pc \in {"run_poll", "run_join"}
    /\ pc \notin {"run_poll", "run_join"} => drain = "none"

\* A run whose drain thread put a progress event has returned, and the
\* caller is at the next file.
C25_Witness ==
    /\ pc = "ind_loop" /\ i = 1 /\ drain = "none" /\ failed_files = <<>>
    /\ \E k \in DOMAIN gui_queue : gui_queue[k][1] = "progress"

\* C26: while a child of run_ffmpeg_cancellable is alive every pipe captured
\* from it is being read, so the child is never waiting in a write to a full
\* pipe while the runner waits for it to exit.
C26_CapturedPipesAreDrained ==
    (child.state = "alive" /\ child.kind \in {"final", "single"})
        => /\ CapturedPipes \subseteq Readers(child, drain)
           /\ ~child.blocked

\* What C27 asks of the events `new` put for one line read while the duration
\* is total_duration.
ProgressOfLine(line, total_duration, new) ==
    IF total_duration # None /\ total_duration[1] > 0
    THEN /\ line = <<>> => new = <<>>
         /\ \A t \in Positions :
               line = ffmpeg_time(t)
                  => /\ Cardinality({k \in DOMAIN new : new[k][1] = "progress"}) = 1
                     /\ \A k \in DOMAIN new :
                           IF new[k][1] = "progress"
                           THEN LET v == new[k][2][1] IN
                                /\ v[2] > 0 /\ 0 <= v[1] /\ v[1] <= 100 * v[2]
                                /\ t >= total_duration[1] => v = <<100, 1>>
                                /\ t < total_duration[1]
                                     => v[1] * total_duration[1] = 100 * t * v[2]
                           ELSE IsProgressOrEta(new[k])
    ELSE new = <<>>

\* C27: with a positive expected duration D every line that carries a
\* timestamp at position t puts exactly one progress event, of value
\* min(100, 100 * t / D), which lies in 0..100; with no duration, or one that
\* is not positive, no line puts a progress or an ETA event.
C27_ProgressValue ==
    [][ \A line \in PipeLines, elapsed_time \in ElapsedTimes :
           read_pipe_line(line, elapsed_time)
              => ProgressOfLine(line, duration, NewEvents) ]_vars

\* C28: while the child of an engine run that has no known duration is alive
\* (the runs of the joined strategies, and an individual run whose probe gave
\* no duration), the last progress mode the job has put is indeterminate.
C28_IndeterminateWithoutDuration ==
    (child.state = "alive" /\ (Joined \/ duration = None))
        => counts.mode = "indeterminate"

\* The statuses 'Preparing file k/N for joining...' for k = 1..n.
Preparing(n, N) == [k \in 1..n |-> <<"Preparing", k, N>>]

\* C29: in a joined job that is neither cancelled nor failed, when the i-th
\* stage-1 child is alive the statuses put after the opening one are
\* 'Preparing file k/N' for k = 1..i, and when the child of the final encode
\* is alive they are 'Preparing file k/N' for k = 1..N, 'Concatenating
\* files...' and 'Exporting to <name>...', in this order.
C29_JoinedStatusOrder ==
    (Joined /\ child.state = "alive" /\ ~requested /\ ~cancel_event
            /\ counts.failures = 0)
        => Tail(counts.statuses) =
              IF child.kind = "stage1"
              THEN Preparing(Len(attempted), Len(batch))
              ELSE Preparing(Len(batch), Len(batch))
                      \o << <<"Concatenating files...">>, <<"Exporting", "output_file">> >>

\* A step that changes the queue puts events at its end, or takes the first
\* event off; the event taken off is the one the UI applies.
QueueStepIsFifo ==
    gui_queue' # gui_queue
        => \/ IsPrefix(gui_queue, gui_queue')
           \/ /\ gui_queue' = Tail(gui_queue)
              /\ progressbar' \in {progressbar, ApplyToProgressbar(progressbar, Head(gui_queue))}

\* C30 as stated: the UI takes the events in the order they were put; the
\* consumer is never left without a timer, whether the handler of an event
\* returns or raises; and every event put on the queue is eventually taken
\* off.
C30_EveryEventIsConsumed ==
    /\ [][QueueStepIsFifo /\ consumer' # "stopped"]_vars
    /\ (gui_queue # <<>>) ~> (gui_queue = <<>>)

\* C30, amended: the UI takes the events in the order they were put; the
\* consumer is never left without a timer, whether the handler of an event
\* returns or raises; and the events on the queue are eventually taken off
\* unless the consumer is waiting in the error dialog of a showerror event,
\* where it stays, with the later events on the queue, until the user closes
\* the dialog.
C30_ConsumedUnlessInErrorDialog ==
    /\ [][QueueStepIsFifo /\ consumer' # "stopped"]_vars
    /\ (gui_queue # <<>>) ~> (gui_queue = <<>> \/ consumer = "showerror")
    /\ [][consumer = "showerror" /\ gui_queue' # gui_queue
            => IsPrefix(gui_queue, gui_queue')]_vars

\* The handler of processing_done has raised (the Start button is still
\* disabled after the job) and the consumer has emptied the queue.
C30_Witness ==
    /\ pc = "idle" /\ jobs = 1 /\ counts.done = 1 /\ gui_queue = <<>>
    /\ process_button = "disabled" /\ consumer = "scheduled"

\* The video encoders of the table whose identifier has a hardware pattern.
HardwareEntries(table) ==
    {table[k].name : k \in {j \in DOMAIN table :
        table[j].flags = "V" /\ \E p \in hw_patterns : Contains(p, table[j].name)}}

\* C31: the list reported by an encoder detection that could query the engine
\* holds exactly the video encoders of the table whose identifier contains a
\* hardware pattern, whatever their description, each once.
C31_DetectionReportsHardwareEntries ==
    [][run_encoder_detection_task(TRUE)
        => LET found == NewEvents[1][2][2]
           IN /\ SeqToSet(found) = HardwareEntries(encoders_info)
              /\ Cardinality(SeqToSet(found)) = Len(found)]_vars

\* The job thread is running outside the destination prompt.
Running == pc \notin {"idle", "j_prompt", "ind_prompt"}

\* The child waits in a write to a pipe nobody reads and no cancellation has
\* been requested.
ChildStuck == child.state = "alive" /\ child.blocked /\ ~cancel_event

DonePending == \E k \in DOMAIN gui_queue : IsDone(gui_queue[k])

\* The job thread ends by putting total_time and then processing_done, which
\* it has not put before; and once past the prompt it does end, unless its
\* child is stuck and nobody cancels.
FinallyPuts ==
    /\ [][pc # "idle" /\ pc' = "idle"
            => /\ counts.done = 0
               /\ NewEvents = <<Ev("total_time", <<"duration", jobs>>),
                                Ev("processing_done", <<"done">>)>>]_vars
    /\ [](JobRunning => counts.done = 0)
    /\ (Running ~> (~Running \/ ChildStuck))

C33_TotalTimeIsOfThisJob ==
    [][(consumer = "scheduled" /\ gui_queue # <<>> /\ IsSuccess(Head(gui_queue))
          /\ gui_queue' = Tail(gui_queue))
        => last_process_time = Some(jobs)]_vars

\* The status texts by which the pipeline says that it stopped.
CancelledTexts ==
    {"Join process cancelled.", "Conversion process cancelled.", "Save cancelled.",
     "Operation cancelled."}

\* C34: a job that has put processing_done has put before it a 'Processing
\* Complete' event, an error-dialog event or a cancelled status of the
\* pipeline.
C34_NoSilentEnd ==
    counts.done > 0
        => \/ counts.success > 0
           \/ counts.showerror > 0
           \/ \E k \in DOMAIN counts.statuses : counts.statuses[k][1] \in CancelledTexts

\* A job is active: its thread runs, or its processing_done is still waiting
\* in the queue.
JobActive == JobRunning \/ DonePending

\* C35: while a job is active Start is disabled; no job is started and the
\* token is not cleared while a job is active.
C35_OneJobAtATime ==
    /\ [](JobActive => process_button = "disabled")
    /\ [][((jobs' # jobs) => ~JobActive)
            /\ ((cancel_event /\ ~cancel_event') => ~JobActive)]_vars

\* A second job runs, started after the first was cancelled: its Start
\* cleared the token.
C35_Witness ==
    /\ jobs = 2 /\ JobRunning /\ clicks > 0 /\ ~cancel_event
    /\ process_button = "disabled"

\* C36: in the Individual strategy the engine, which overwrites, is never
\* writing the output path of another file that the same job has converted.
C36_OutputsAreDistinct ==
    (strategy = "individual" /\ child.state = "alive")
        => \A k \in DOMAIN attempted :
              (attempted[k] # file_path /\ attempted[k] \notin SeqToSet(failed_files))
                  => OutputFile(output_path, attempted[k], settings)
                        # OutputFile(output_path, file_path, settings)

\* C37: every ETA status put for a line is computed from a remaining duration
\* that is not negative.
C37_EtaRemainingNotNegative ==
    [][\A k \in DOMAIN NewEvents :
          (NewEvents[k][1] = "status" /\ NewEvents[k][2][1] = "ETA")
              => NewEvents[k][2][2] >= 0]_vars

\* C38: a job that has put processing_done has not left the progress
\* indicator in indeterminate mode: the last progress_mode event it has put,
\* if any, is 'determinate'.
C38_EndsDeterminate == counts.done > 0 => counts.mode # "indeterminate"

\* C39: variable-bitrate mode is never selected while the audio format is one
\* of aac, alac, wav, aiff, flac: not in the widgets, not in a snapshot taken
\* from them, and an argument set built for such a format has no quality
\* level.
C39_NoVbrWithFixedRateFormat ==
    /\ ui_options.output_format_audio \in FixedRateFormats => ~ui_options.vbr_mode
    /\ settings.output_format_audio \in FixedRateFormats => ~settings.vbr_mode
    /\ (ArgsBuilt /\ settings.mode = "Audio"
            /\ settings.output_format_audio \in FixedRateFormats) => ~HasArg("q:a")

\* A job started with flac has built its argument set, with the fixed
\* bitrate; the user has since selected mp3 and variable bitrate.
C39_Witness ==
    /\ ArgsBuilt /\ settings.output_format_audio = "flac" /\ HasArg("audio_bitrate")
    /\ ui_options.output_format_audio = "mp3" /\ ui_options.vbr_mode
    /\ vbr_check = "normal"
====
